---- MODULE Spec2Model ----
(***************************************************************************)
(* A model of the media-resolution adapter of AviaxMusic:                  *)
(*   platforms/Youtube.py  class YouTubeAPI (rate limiter, mirror          *)
(*                         rotation, details / video / download)           *)
(*   utils/thumbnails.py   gen_thumb / gen_qthumb and their cache          *)
(*                                                                         *)
(* Coroutines run on one asyncio event loop: the code between two awaits   *)
(* is one atomic step, and the clock moves only while every coroutine is   *)
(* suspended at an await.  Time is counted in ticks of half a second.      *)
(***************************************************************************)
EXTENDS Integers, Sequences, FiniteSets, TLC

(***************************************************************************)
(* Bounds of the model.                                                    *)
(***************************************************************************)
\* time.time() when the adapter is constructed, in ticks; any value beyond
\* the initial request_delay behaves alike (last_request starts at 0).
StartTime == 8
\* The clock stops after this many ticks past StartTime.
Horizon == 7
\* The number of calls to details / video / download one run may start.
MaxCalls == 3
\* The number of calls to gen_thumb / gen_qthumb one run may start.
MaxThumbCalls == 2

MaxTime == StartTime + Horizon

(***************************************************************************)
(* Program constants (Youtube.py), times in ticks of 0.5 s.                *)
(***************************************************************************)
\* self.request_delay = 2.0
InitialDelay == 4
\* random.uniform(1.5, 3.0)
MinDelay == 3
MaxDelay == 6
\* random.uniform(0, 0.5)
MaxJitter == 1
\* await asyncio.sleep(1)  after HTTP 429
Cooldown == 2
\* min(3, len(self.invidious_instances))
AttemptCap == 3
\* int(time.time()) counts whole seconds
TicksPerSecond == 2

DelayChoices == MinDelay..MaxDelay
JitterChoices == 0..MaxJitter

Procs == {"c1", "c2"}

invidious_instances ==
    << "https://yewtu.be", "https://inv.odyssey346.dev",
       "https://invidious.flokinet.to", "https://vid.puffyan.us",
       "https://inv.tux.pizza" >>

base_url == "https://www.youtube.com/watch?v="

VideoIds == {"idA", "idB"}
NoneVal == "None"

Min(a, b) == IF a < b THEN a ELSE b

(***************************************************************************)
(* Pure helpers of YouTubeAPI.                                             *)
(***************************************************************************)
\* (mutant) the jitter is subtracted
SleepDelayEarly(delay, elapsed, jitter) == delay - elapsed - jitter

\* _rate_limit: delay = self.request_delay - elapsed + random.uniform(0, 0.5)
SleepDelay(delay, elapsed, jitter) == delay - elapsed + jitter

\* _rate_limit: if elapsed < self.request_delay
MustWait(elapsed, delay) == elapsed < delay

\* (mutant) the modulus is one short: the last mirror is never reached
NextIndexShort(i) == (i + 1) % (Len(invidious_instances) - 1)

\* _get_next_instance: (index + 1) % len(self.invidious_instances), 0-based
NextIndex(i) == (i + 1) % Len(invidious_instances)

\* _get_next_instance: self.invidious_instances[index], 0-based index
InstanceAt(i) == invidious_instances[i + 1]

\* (mutant) every mirror is tried
MaxAttemptsAll == Len(invidious_instances)

\* _get_from_invidious: max_attempts
MaxAttempts == Min(AttemptCap, Len(invidious_instances))

\* _get_from_invidious: asyncio.sleep(0.5 * (attempt + 1)), in ticks
BackoffDelay(attempt) == attempt + 1

\* _get_from_invidious: if attempt < max_attempts - 1
SleepsAfter(attempt) == attempt < MaxAttempts - 1

\* download: int(time.time())
Timestamp(t) == t \div TicksPerSecond

\* _get_ydl_opts
YdlOpts(audio_only) ==
    [ format |-> IF audio_only THEN "bestaudio/best"
                 ELSE "bestvideo[height<=720]+bestaudio/best[height<=720]",
      postprocessors |-> IF audio_only
                         THEN << [ key |-> "FFmpegExtractAudio",
                                   preferredcodec |-> "mp3" ] >>
                         ELSE << >> ]

\* download: os.path.join('downloads', f'{video_id}_{timestamp}.%(ext)s')
OutTmpl(video_id, t) == [ stem |-> << video_id, Timestamp(t) >>, ext |-> "%(ext)s" ]

\* ydl.prepare_filename(info): the template with the extension of the media
PrepareFilename(tmpl, ext) == [ stem |-> tmpl.stem, ext |-> ext ]

\* path.endswith('.mp3')
EndsWithMp3(path) == path.ext = "mp3"

\* os.path.splitext(path)[0] + '.mp3'
WithMp3(path) == [ stem |-> path.stem, ext |-> "mp3" ]

\* (mutant) the rename to .mp3 is not limited to audio downloads
DownloadPathAnyMode(path, audio_only, exists, renameOk) ==
    IF ~(path.ext = "mp3")
    THEN IF exists /\ ~renameOk THEN path ELSE [ stem |-> path.stem, ext |-> "mp3" ]
    ELSE path

\* download: the path returned after a finished extract_info
\*   exists: os.path.exists(path); renameOk: os.rename did not raise OSError
DownloadPath(path, audio_only, exists, renameOk) ==
    IF audio_only /\ ~EndsWithMp3(path)
    THEN IF exists /\ ~renameOk THEN path ELSE WithMp3(path)
    ELSE path

(***************************************************************************)
(* Mirror responses: an HTTP status and a JSON body.  A body is a list of  *)
(* entries (each with a type and a videoId), or some other JSON value; an  *)
(* attempt may also end in a timeout or another exception.                 *)
(***************************************************************************)
Entry(t, v) == [ type |-> t, videoId |-> v ]

ListBody(items) == [ kind |-> "list", items |-> items ]
OtherBody == [ kind |-> "notlist" ]

Bodies ==
    { ListBody(<< >>),
      ListBody(<< Entry("video", "idA") >>),
      ListBody(<< Entry("channel", "chX"), Entry("video", "idB"),
                  Entry("video", "idA") >>),
      ListBody(<< Entry("playlist", "plX"), Entry("channel", "chX") >>),
      ListBody(<< Entry("video", NoneVal) >>),
      OtherBody }

Responses ==
    [ outcome : {"http"}, status : {200}, body : Bodies ]
    \cup [ outcome : {"http"}, status : {429, 500}, body : {OtherBody} ]
    \cup [ outcome : {"timeout", "error"}, status : {0}, body : {OtherBody} ]

\* results and isinstance(results, list)
IsNonEmptyList(body) == body.kind = "list" /\ Len(body.items) > 0

\* for video in results: if video.get('type') == 'video'
VideoPositions(items) == { i \in 1..Len(items) : items[i].type = "video" }

FirstVideo(items) ==
    LET ps == VideoPositions(items)
    IN  items[CHOOSE i \in ps : \A j \in ps : i <= j]

NoneResult == [ kind |-> "None" ]

\* the dictionary built from a mirror entry
MirrorRecord(video) ==
    [ kind |-> "dict", id |-> video.videoId,
      url |-> << base_url, video.videoId >>, via |-> "mirror" ]

\* the dictionary built from the primary backend's info
PrimaryRecord(video_id) ==
    [ kind |-> "dict", id |-> video_id,
      url |-> << base_url, video_id >>, via |-> "primary" ]

\* one pass of the attempt loop: does the response make the loop return
AttemptYields(resp) ==
    /\ resp.outcome = "http"
    /\ resp.status = 200
    /\ IsNonEmptyList(resp.body)
    /\ VideoPositions(resp.body.items) # {}

AttemptResult(resp) ==
    IF AttemptYields(resp) THEN MirrorRecord(FirstVideo(resp.body.items))
    ELSE NoneResult

\* elif resp.status == 429
IsRateLimited(resp) == resp.outcome = "http" /\ resp.status = 429

(***************************************************************************)
(* Outcomes of the primary backend (yt_dlp extract_info) per operation.    *)
(***************************************************************************)
DetailsOutcomes ==
    { "ok", "no_info", "entries_empty", "entries_not_list", "no_id",
      "captcha", "extractor_error", "other_error" }

\* the outcomes after which details calls _get_from_invidious
FallsBack(outcome) == outcome \in { "no_id", "captcha" }

\* the error details returns without consulting a mirror
DetailsError(outcome) ==
    CASE outcome = "no_info" -> "No results found."
      [] outcome = "entries_empty" -> "No videos found in search results."
      [] outcome = "entries_not_list" -> "Invalid search results format."
      [] outcome = "extractor_error" -> "Extraction failed"
      [] OTHER -> "Error"

\* the error details returns when every mirror attempt failed
FallbackError(outcome) ==
    IF outcome = "no_id" THEN "No video ID found and fallback failed"
    ELSE "Blocked by YouTube and fallback failed"

VideoOutcomes ==
    { "ok", "no_info", "format_url", "no_url", "download_error", "other_error" }

VideoResult(outcome) ==
    CASE outcome = "ok" -> [ val |-> [ kind |-> "str", s |-> "info_url" ], err |-> "" ]
      [] outcome = "format_url" ->
            [ val |-> [ kind |-> "str", s |-> "fmt_url" ], err |-> "" ]
      [] outcome = "no_info" ->
            [ val |-> NoneResult, err |-> "No video information available" ]
      [] outcome = "no_url" -> [ val |-> NoneResult, err |-> "No stream URL available" ]
      [] outcome = "download_error" -> [ val |-> NoneResult, err |-> "Download failed" ]
      [] OTHER -> [ val |-> NoneResult, err |-> "Error getting stream URL" ]

DownloadOutcomes == { "ok", "info_none", "download_error" }
Exts == { "mp3", "webm", "mp4" }

NoResult == [ val |-> NoneResult, err |-> "pending" ]
NoResponse == [ outcome |-> "none", status |-> 0, body |-> OtherBody ]

(***************************************************************************)
(* thumbnails.py.  Names are sequences of characters (tokens), so that the *)
(* f-strings are concatenations and sanitize_filename a substitution.      *)
(***************************************************************************)
\* the characters re.sub(r'[\\/*?:"<>|]', "_", filename) replaces
Disallowed == { "\\", "/", "*", "?", ":", "\"", "<", ">", "|" }

sanitize_filename(name) ==
    [ i \in 1..Len(name) |-> IF name[i] \in Disallowed THEN "_" ELSE name[i] ]

\* FAILED = "AviaxMusic/assets/bot.jpg"
FAILED == << "AviaxMusic/assets/bot.jpg" >>
CirclePath == << "AviaxMusic/assets/circle.png" >>
FontPath1 == << "AviaxMusic/assets/font2.ttf" >>
FontPath2 == << "AviaxMusic/assets/font.ttf" >>
Assets == { FAILED, CirclePath, FontPath1, FontPath2 }

\* cached_path: cache/{videoid}_{user}.png, cache/que{videoid}_{user}.png
CachedPath(fn, videoid, user_id) ==
    (IF fn = "gen_qthumb" THEN << "cache/", "que" >> ELSE << "cache/" >>)
        \o sanitize_filename(videoid) \o << "_" >> \o sanitize_filename(user_id)
        \o << ".png" >>

ThumbPath(videoid) == << "cache/", "thumb" >> \o sanitize_filename(videoid) \o << ".png" >>
ChopPath(videoid) == << "cache/", "chop" >> \o sanitize_filename(videoid) \o << ".png" >>
CroppedPath(videoid) ==
    << "cache/", "cropped" >> \o sanitize_filename(videoid) \o << ".png" >>
TempPath(videoid) == << "cache/", "temp" >> \o sanitize_filename(videoid) \o << ".png" >>

\* get_user_profile_pic: cache/{user}_photo.jpg
PhotoPath(user_id) == << "cache/" >> \o sanitize_filename(user_id) \o << "_photo.jpg" >>

ThumbFns == { "gen_thumb", "gen_qthumb" }
\* an id that sanitize_filename changes
ThumbVideoIds == { << "v", "/", "1" >> }
ThumbUserIds == { << "7" >>, << "8" >> }
ThumbProcs == { "t1", "t2" }

NonePath == << >>

\* The files: those completely written and those open for writing.
NoFiles == [ ok |-> {}, partial |-> {} ]

\* os.path.isfile(path)
IsFile(d, path) == path \in d.ok \cup d.partial

\* the file is complete
IsWhole(d, path) == path \in d.ok

\* a file is written, created or replaced
Save(d, paths) == [ ok |-> d.ok \cup paths, partial |-> d.partial \ paths ]

\* open(path, "wb"): the file is created or truncated
Truncate(d, path) == [ ok |-> d.ok \ { path }, partial |-> d.partial \cup { path } ]

\* os.remove(path)
Remove(d, path) == [ ok |-> d.ok \ { path }, partial |-> d.partial \ { path } ]

\* return FAILED if file_exists(FAILED) else None
\* (mutant) the default image is returned without looking for it
FailedUnchecked(d) == FAILED

FailedOrNone(d) == IF IsFile(d, FAILED) THEN FAILED ELSE NonePath

\* (mutant) the check looks at thumb_path instead of cached_path
CacheHitOnThumb(d, fn, videoid, user_id) == IsFile(d, ThumbPath(videoid))

\* if os.path.isfile(cached_path)
CacheHit(d, fn, videoid, user_id) == IsFile(d, CachedPath(fn, videoid, user_id))

TIdle ==
    [ pc |-> "idle", fn |-> "none", videoid |-> << >>, user_id |-> << >>,
      user_image |-> NonePath, thumbnail |-> FALSE, result |-> NonePath,
      hit |-> FALSE, again |-> FALSE, fetched |-> {}, touched |-> FALSE,
      written |-> FALSE, stale |-> FALSE ]

(***************************************************************************)
(* YouTubeAPI.url: strings are sequences of characters.                    *)
(***************************************************************************)
SchemeHttp == << "h", "t", "t", "p", ":", "/", "/" >>
SchemeHttps == << "h", "t", "t", "p", "s", ":", "/", "/" >>
Www == << "w", "w", "w", "." >>
HostCom == << "y", "o", "u", "t", "u", "b", "e", ".", "c", "o", "m" >>
HostBe == << "y", "o", "u", "t", "u", ".", "b", "e" >>
Slash == << "/" >>
WatchV == << "w", "a", "t", "c", "h", "?", "v", "=" >>
Embed == << "e", "m", "b", "e", "d", "/" >>
VSlash == << "v", "/" >>
QueryV == << "?", "v", "=" >>
\* [^&=%\?]
IdExcluded == { "&", "=", "%", "?" }
\* {11}
IdLength == 11

StartsWith(s, pre) == Len(s) >= Len(pre) /\ SubSeq(s, 1, Len(pre)) = pre
Drop(s, n) == SubSeq(s, n + 1, Len(s))

\* what is left of each string of R after one of the prefixes P
Req(R, P) == { Drop(x[1], Len(x[2])) : x \in { y \in R \X P : StartsWith(y[1], y[2]) } }
\* an optional group
Opt(R, P) == R \cup Req(R, P)
\* .+\?v=  (the dot matches no newline)
AnyThenQueryV(R) ==
    UNION { { Drop(r, j + Len(QueryV)) :
                j \in { i \in 1..Len(r) :
                          /\ i + Len(QueryV) <= Len(r)
                          /\ SubSeq(r, i + 1, i + Len(QueryV)) = QueryV
                          /\ \A k \in 1..i : r[k] # "\n" } } : r \in R }

\* (https?://)?(www\.)?(youtube\.com|youtu\.be)/(watch\?v=|embed/|v/|.+\?v=)?
\* what can be left of s after these groups
AfterPrefix(s) ==
    LET r1 == Opt({ s }, { SchemeHttp, SchemeHttps })
        r2 == Opt(r1, { Www })
        r3 == Req(r2, { HostCom, HostBe })
        r4 == Req(r3, { Slash })
    IN  Opt(r4, { WatchV, Embed, VSlash }) \cup AnyThenQueryV(r4)

IsIdChar(ch) == ch \notin IdExcluded

\* self.url_regex.fullmatch(s) is not None
url_regex_fullmatch(s) ==
    \E r \in AfterPrefix(s) :
        Len(r) = IdLength /\ \A i \in 1..Len(r) : IsIdChar(r[i])

\* text[offset:offset + length]
Slice(text, offset, length) ==
    LET lo == Min(offset, Len(text))
        hi == Min(offset + length, Len(text))
    IN  IF hi <= lo THEN << >> ELSE SubSeq(text, lo + 1, hi)

\* None, where a string is expected
NoneStr == << "None" >>
\* no message (reply_to_message is None)
NoMessage == [ none |-> TRUE ]

\* msg.text or msg.caption or ""
TextOf(msg) ==
    IF msg.text # NoneStr /\ msg.text # << >> THEN msg.text
    ELSE IF msg.caption # NoneStr /\ msg.caption # << >> THEN msg.caption
    ELSE << >>

\* (msg.entities or []) + (msg.caption_entities or [])
EntitiesOf(msg) == msg.entities \o msg.caption_entities

\* an entity of another type: the loop body tests nothing
NotTested == << "not tested" >>

\* url_regex.fullmatch(None) raises TypeError, which the except of line 168
\* does not catch
TypeErrorRaised == << "TypeError" >>

\* the string the loop body tests for an entity
Candidate(text, entity) ==
    IF entity.type = "URL" THEN Slice(text, entity.offset, entity.length)
    ELSE IF entity.type = "TEXT_LINK" THEN entity.url
    ELSE NotTested

\* the inner loop over the entities of one message: the first candidate that
\* matches, or NoneStr; a text link whose url is None ends the loop with a
\* TypeError
RECURSIVE ScanEntities(_, _)
ScanEntities(text, entities) ==
    IF entities = << >> THEN NoneStr
    ELSE LET url == Candidate(text, Head(entities))
         IN  IF url = NoneStr THEN TypeErrorRaised
             ELSE IF url # NotTested /\ url_regex_fullmatch(url) THEN url
             ELSE ScanEntities(text, Tail(entities))

\* messages_to_check = [message] (+ [message.reply_to_message])
MessagesToCheck(msg) ==
    IF msg.reply_to_message # NoMessage THEN << msg, msg.reply_to_message >> ELSE << msg >>

\* the outer loop
RECURSIVE ScanMessages(_)
ScanMessages(msgs) ==
    IF msgs = << >> THEN NoneStr
    ELSE LET found == ScanEntities(TextOf(Head(msgs)), EntitiesOf(Head(msgs)))
         IN  IF found # NoneStr THEN found ELSE ScanMessages(Tail(msgs))

\* YouTubeAPI.url(message): what it returns, and whether it raised.  The
\* except of line 171 turns the TypeError into the result None.
url(msg) ==
    LET found == ScanMessages(MessagesToCheck(msg))
    IN  [ raised |-> FALSE,
          value |-> IF found = TypeErrorRaised THEN NoneStr ELSE found ]

(***************************************************************************)
(* Messages given to YouTubeAPI.url.                                       *)
(***************************************************************************)
SimpleMessages ==
    {
      \* a link after a character outside the Basic Multilingual Plane (a
      \* musical note, written by its code point); Telegram counts the
      \* offset and the length of an entity in UTF-16 code units, of which
      \* the note takes two
      [ text |-> << "U+1F3B5", " ", "h", "t", "t", "p", "s", ":", "/", "/", "y", "o", "u", "t", "u", ".", "b", "e", "/", "d", "Q", "w", "4", "w", "9", "W", "g", "X", "c", "Q" >>,
        caption |-> NoneStr,
        entities |-> << [ type |-> "URL", offset |-> 3, length |-> 28, url |-> NoneStr ] >>,
        caption_entities |-> <<  >>,
        reply_to_message |-> NoMessage ],
      \* a text without entities
      [ text |-> << "h", "e", "l", "l", "o" >>,
        caption |-> NoneStr,
        entities |-> <<  >>,
        caption_entities |-> <<  >>,
        reply_to_message |-> NoMessage ],
      \* a short link inside a text
      [ text |-> << "a", " ", "y", "o", "u", "t", "u", ".", "b", "e", "/", "d", "Q", "w", "4", "w", "9", "W", "g", "X", "c", "Q" >>,
        caption |-> NoneStr,
        entities |-> << [ type |-> "URL", offset |-> 2, length |-> 20, url |-> NoneStr ] >>,
        caption_entities |-> <<  >>,
        reply_to_message |-> NoMessage ],
      \* a watch link
      [ text |-> << "h", "t", "t", "p", "s", ":", "/", "/", "w", "w", "w", ".", "y", "o", "u", "t", "u", "b", "e", ".", "c", "o", "m", "/", "w", "a", "t", "c", "h", "?", "v", "=", "a", "b", "c", "d", "e", "f", "g", "h", "i", "j", "k" >>,
        caption |-> NoneStr,
        entities |-> << [ type |-> "URL", offset |-> 0, length |-> 43, url |-> NoneStr ] >>,
        caption_entities |-> <<  >>,
        reply_to_message |-> NoMessage ],
      \* a link with a trailing parameter: no full match
      [ text |-> << "h", "t", "t", "p", "s", ":", "/", "/", "y", "o", "u", "t", "u", ".", "b", "e", "/", "d", "Q", "w", "4", "w", "9", "W", "g", "X", "c", "Q", "&", "t", "=", "1" >>,
        caption |-> NoneStr,
        entities |-> << [ type |-> "URL", offset |-> 0, length |-> 32, url |-> NoneStr ] >>,
        caption_entities |-> <<  >>,
        reply_to_message |-> NoMessage ],
      \* a link to another site, then a short link
      [ text |-> << "e", "x", "a", "m", "p", "l", "e", ".", "c", "o", "m", "/", "x", " ", "y", "o", "u", "t", "u", ".", "b", "e", "/", "a", "b", "c", "d", "e", "f", "g", "h", "i", "j", "k" >>,
        caption |-> NoneStr,
        entities |-> << [ type |-> "URL", offset |-> 0, length |-> 13, url |-> NoneStr ],
                       [ type |-> "URL", offset |-> 14, length |-> 20, url |-> NoneStr ] >>,
        caption_entities |-> <<  >>,
        reply_to_message |-> NoMessage ],
      \* bold text that is also a text link
      [ text |-> << "c", "l", "i", "c", "k" >>,
        caption |-> NoneStr,
        entities |-> << [ type |-> "BOLD", offset |-> 0, length |-> 5, url |-> NoneStr ],
                       [ type |-> "TEXT_LINK", offset |-> 0, length |-> 5, url |-> << "h", "t", "t", "p", "s", ":", "/", "/", "y", "o", "u", "t", "u", "b", "e", ".", "c", "o", "m", "/", "e", "m", "b", "e", "d", "/", "a", "b", "c", "d", "e", "f", "g", "h", "i", "j", "k" >> ] >>,
        caption_entities |-> <<  >>,
        reply_to_message |-> NoMessage ],
      \* a media message: the link is in the caption
      [ text |-> NoneStr,
        caption |-> << "y", "o", "u", "t", "u", ".", "b", "e", "/", "d", "Q", "w", "4", "w", "9", "W", "g", "X", "c", "Q" >>,
        entities |-> <<  >>,
        caption_entities |-> << [ type |-> "URL", offset |-> 0, length |-> 20, url |-> NoneStr ] >>,
        reply_to_message |-> NoMessage ],
      \* entities and caption entities
      [ text |-> << "y", "o", "u", "t", "u", ".", "b", "e", "/", "a", "b", "c", "d", "e", "f", "g", "h", "i", "j", "k", " ", "x" >>,
        caption |-> NoneStr,
        entities |-> << [ type |-> "URL", offset |-> 0, length |-> 20, url |-> NoneStr ] >>,
        caption_entities |-> << [ type |-> "TEXT_LINK", offset |-> 0, length |-> 1, url |-> << "h", "t", "t", "p", "s", ":", "/", "/", "y", "o", "u", "t", "u", ".", "b", "e", "/", "d", "Q", "w", "4", "w", "9", "W", "g", "X", "c", "Q" >> ] >>,
        reply_to_message |-> NoMessage ],
      \* a text link to another host
      [ text |-> << "m", "u", "s", "i", "c" >>,
        caption |-> NoneStr,
        entities |-> << [ type |-> "TEXT_LINK", offset |-> 0, length |-> 5, url |-> << "h", "t", "t", "p", "s", ":", "/", "/", "m", "u", "s", "i", "c", ".", "y", "o", "u", "t", "u", "b", "e", ".", "c", "o", "m", "/", "w", "a", "t", "c", "h", "?", "v", "=", "d", "Q", "w", "4", "w", "9", "W", "g", "X", "c", "Q" >> ] >>,
        caption_entities |-> <<  >>,
        reply_to_message |-> NoMessage ],
      \* a link with a path before ?v=
      [ text |-> << "s", "e", "e", " ", "y", "o", "u", "t", "u", "b", "e", ".", "c", "o", "m", "/", "x", "?", "v", "=", "d", "Q", "w", "4", "w", "9", "W", "g", "X", "c", "Q" >>,
        caption |-> NoneStr,
        entities |-> << [ type |-> "URL", offset |-> 4, length |-> 27, url |-> NoneStr ] >>,
        caption_entities |-> <<  >>,
        reply_to_message |-> NoMessage ]
    }

\* a message, alone or as a reply to another one
Messages ==
    { [ msg EXCEPT !.reply_to_message = r ] :
        msg \in SimpleMessages, r \in SimpleMessages \cup { NoMessage } }

\* no call of url has returned yet
PendingUrl == [ pending |-> TRUE ]

(***************************************************************************)
(* extraction.py: is_valid_username and extract_user.  Strings are         *)
(* sequences of characters.                                                *)
(***************************************************************************)
Letters ==
    { "a", "b", "c", "d", "e", "f", "g", "h", "i", "j", "k", "l", "m",
      "n", "o", "p", "q", "r", "s", "t", "u", "v", "w", "x", "y", "z",
      "A", "B", "C", "D", "E", "F", "G", "H", "I", "J", "K", "L", "M",
      "N", "O", "P", "Q", "R", "S", "T", "U", "V", "W", "X", "Y", "Z" }
Digits == << "0", "1", "2", "3", "4", "5", "6", "7", "8", "9" >>
DigitChars == { Digits[i] : i \in 1..Len(Digits) }
\* {4,31}
TailMin == 4
TailMax == 31

\* (mutant) one character more is accepted
IsValidUsernameLong(username) ==
    /\ Len(username) >= 1 + TailMin
    /\ Len(username) <= 2 + TailMax
    /\ username[1] \in Letters
    /\ \A i \in 2..Len(username) : username[i] \in Letters \cup DigitChars \cup { "_" }

\* re.fullmatch(r"[a-zA-Z][a-zA-Z0-9_]{4,31}", username) is not None
is_valid_username(username) ==
    /\ Len(username) >= 1 + TailMin
    /\ Len(username) <= 1 + TailMax
    /\ username[1] \in Letters
    /\ \A i \in 2..Len(username) : username[i] \in Letters \cup DigitChars \cup { "_" }

\* str.isdecimal() and int() know the decimal digits of every script
\* (Unicode category Nd).  A character outside ASCII is written by its code
\* point.  Each script has its ten digits in a row, from zero to nine; the
\* rows are those of Unicode 14.0.0 (66 rows).
DigitRows ==
    << Digits,
       \* arabic-indic
       << "U+0660", "U+0661", "U+0662", "U+0663", "U+0664",
          "U+0665", "U+0666", "U+0667", "U+0668", "U+0669" >>,
       \* extended arabic-indic
       << "U+06F0", "U+06F1", "U+06F2", "U+06F3", "U+06F4",
          "U+06F5", "U+06F6", "U+06F7", "U+06F8", "U+06F9" >>,
       \* nko
       << "U+07C0", "U+07C1", "U+07C2", "U+07C3", "U+07C4",
          "U+07C5", "U+07C6", "U+07C7", "U+07C8", "U+07C9" >>,
       \* devanagari
       << "U+0966", "U+0967", "U+0968", "U+0969", "U+096A",
          "U+096B", "U+096C", "U+096D", "U+096E", "U+096F" >>,
       \* bengali
       << "U+09E6", "U+09E7", "U+09E8", "U+09E9", "U+09EA",
          "U+09EB", "U+09EC", "U+09ED", "U+09EE", "U+09EF" >>,
       \* gurmukhi
       << "U+0A66", "U+0A67", "U+0A68", "U+0A69", "U+0A6A",
          "U+0A6B", "U+0A6C", "U+0A6D", "U+0A6E", "U+0A6F" >>,
       \* gujarati
       << "U+0AE6", "U+0AE7", "U+0AE8", "U+0AE9", "U+0AEA",
          "U+0AEB", "U+0AEC", "U+0AED", "U+0AEE", "U+0AEF" >>,
       \* oriya
       << "U+0B66", "U+0B67", "U+0B68", "U+0B69", "U+0B6A",
          "U+0B6B", "U+0B6C", "U+0B6D", "U+0B6E", "U+0B6F" >>,
       \* tamil
       << "U+0BE6", "U+0BE7", "U+0BE8", "U+0BE9", "U+0BEA",
          "U+0BEB", "U+0BEC", "U+0BED", "U+0BEE", "U+0BEF" >>,
       \* telugu
       << "U+0C66", "U+0C67", "U+0C68", "U+0C69", "U+0C6A",
          "U+0C6B", "U+0C6C", "U+0C6D", "U+0C6E", "U+0C6F" >>,
       \* kannada
       << "U+0CE6", "U+0CE7", "U+0CE8", "U+0CE9", "U+0CEA",
          "U+0CEB", "U+0CEC", "U+0CED", "U+0CEE", "U+0CEF" >>,
       \* malayalam
       << "U+0D66", "U+0D67", "U+0D68", "U+0D69", "U+0D6A",
          "U+0D6B", "U+0D6C", "U+0D6D", "U+0D6E", "U+0D6F" >>,
       \* sinhala lith
       << "U+0DE6", "U+0DE7", "U+0DE8", "U+0DE9", "U+0DEA",
          "U+0DEB", "U+0DEC", "U+0DED", "U+0DEE", "U+0DEF" >>,
       \* thai
       << "U+0E50", "U+0E51", "U+0E52", "U+0E53", "U+0E54",
          "U+0E55", "U+0E56", "U+0E57", "U+0E58", "U+0E59" >>,
       \* lao
       << "U+0ED0", "U+0ED1", "U+0ED2", "U+0ED3", "U+0ED4",
          "U+0ED5", "U+0ED6", "U+0ED7", "U+0ED8", "U+0ED9" >>,
       \* tibetan
       << "U+0F20", "U+0F21", "U+0F22", "U+0F23", "U+0F24",
          "U+0F25", "U+0F26", "U+0F27", "U+0F28", "U+0F29" >>,
       \* myanmar
       << "U+1040", "U+1041", "U+1042", "U+1043", "U+1044",
          "U+1045", "U+1046", "U+1047", "U+1048", "U+1049" >>,
       \* myanmar shan
       << "U+1090", "U+1091", "U+1092", "U+1093", "U+1094",
          "U+1095", "U+1096", "U+1097", "U+1098", "U+1099" >>,
       \* khmer
       << "U+17E0", "U+17E1", "U+17E2", "U+17E3", "U+17E4",
          "U+17E5", "U+17E6", "U+17E7", "U+17E8", "U+17E9" >>,
       \* mongolian
       << "U+1810", "U+1811", "U+1812", "U+1813", "U+1814",
          "U+1815", "U+1816", "U+1817", "U+1818", "U+1819" >>,
       \* limbu
       << "U+1946", "U+1947", "U+1948", "U+1949", "U+194A",
          "U+194B", "U+194C", "U+194D", "U+194E", "U+194F" >>,
       \* new tai lue
       << "U+19D0", "U+19D1", "U+19D2", "U+19D3", "U+19D4",
          "U+19D5", "U+19D6", "U+19D7", "U+19D8", "U+19D9" >>,
       \* tai tham hora
       << "U+1A80", "U+1A81", "U+1A82", "U+1A83", "U+1A84",
          "U+1A85", "U+1A86", "U+1A87", "U+1A88", "U+1A89" >>,
       \* tai tham tham
       << "U+1A90", "U+1A91", "U+1A92", "U+1A93", "U+1A94",
          "U+1A95", "U+1A96", "U+1A97", "U+1A98", "U+1A99" >>,
       \* balinese
       << "U+1B50", "U+1B51", "U+1B52", "U+1B53", "U+1B54",
          "U+1B55", "U+1B56", "U+1B57", "U+1B58", "U+1B59" >>,
       \* sundanese
       << "U+1BB0", "U+1BB1", "U+1BB2", "U+1BB3", "U+1BB4",
          "U+1BB5", "U+1BB6", "U+1BB7", "U+1BB8", "U+1BB9" >>,
       \* lepcha
       << "U+1C40", "U+1C41", "U+1C42", "U+1C43", "U+1C44",
          "U+1C45", "U+1C46", "U+1C47", "U+1C48", "U+1C49" >>,
       \* ol chiki
       << "U+1C50", "U+1C51", "U+1C52", "U+1C53", "U+1C54",
          "U+1C55", "U+1C56", "U+1C57", "U+1C58", "U+1C59" >>,
       \* vai
       << "U+A620", "U+A621", "U+A622", "U+A623", "U+A624",
          "U+A625", "U+A626", "U+A627", "U+A628", "U+A629" >>,
       \* saurashtra
       << "U+A8D0", "U+A8D1", "U+A8D2", "U+A8D3", "U+A8D4",
          "U+A8D5", "U+A8D6", "U+A8D7", "U+A8D8", "U+A8D9" >>,
       \* kayah li
       << "U+A900", "U+A901", "U+A902", "U+A903", "U+A904",
          "U+A905", "U+A906", "U+A907", "U+A908", "U+A909" >>,
       \* javanese
       << "U+A9D0", "U+A9D1", "U+A9D2", "U+A9D3", "U+A9D4",
          "U+A9D5", "U+A9D6", "U+A9D7", "U+A9D8", "U+A9D9" >>,
       \* myanmar tai laing
       << "U+A9F0", "U+A9F1", "U+A9F2", "U+A9F3", "U+A9F4",
          "U+A9F5", "U+A9F6", "U+A9F7", "U+A9F8", "U+A9F9" >>,
       \* cham
       << "U+AA50", "U+AA51", "U+AA52", "U+AA53", "U+AA54",
          "U+AA55", "U+AA56", "U+AA57", "U+AA58", "U+AA59" >>,
       \* meetei mayek
       << "U+ABF0", "U+ABF1", "U+ABF2", "U+ABF3", "U+ABF4",
          "U+ABF5", "U+ABF6", "U+ABF7", "U+ABF8", "U+ABF9" >>,
       \* fullwidth
       << "U+FF10", "U+FF11", "U+FF12", "U+FF13", "U+FF14",
          "U+FF15", "U+FF16", "U+FF17", "U+FF18", "U+FF19" >>,
       \* osmanya
       << "U+104A0", "U+104A1", "U+104A2", "U+104A3", "U+104A4",
          "U+104A5", "U+104A6", "U+104A7", "U+104A8", "U+104A9" >>,
       \* hanifi rohingya
       << "U+10D30", "U+10D31", "U+10D32", "U+10D33", "U+10D34",
          "U+10D35", "U+10D36", "U+10D37", "U+10D38", "U+10D39" >>,
       \* brahmi
       << "U+11066", "U+11067", "U+11068", "U+11069", "U+1106A",
          "U+1106B", "U+1106C", "U+1106D", "U+1106E", "U+1106F" >>,
       \* sora sompeng
       << "U+110F0", "U+110F1", "U+110F2", "U+110F3", "U+110F4",
          "U+110F5", "U+110F6", "U+110F7", "U+110F8", "U+110F9" >>,
       \* chakma
       << "U+11136", "U+11137", "U+11138", "U+11139", "U+1113A",
          "U+1113B", "U+1113C", "U+1113D", "U+1113E", "U+1113F" >>,
       \* sharada
       << "U+111D0", "U+111D1", "U+111D2", "U+111D3", "U+111D4",
          "U+111D5", "U+111D6", "U+111D7", "U+111D8", "U+111D9" >>,
       \* khudawadi
       << "U+112F0", "U+112F1", "U+112F2", "U+112F3", "U+112F4",
          "U+112F5", "U+112F6", "U+112F7", "U+112F8", "U+112F9" >>,
       \* newa
       << "U+11450", "U+11451", "U+11452", "U+11453", "U+11454",
          "U+11455", "U+11456", "U+11457", "U+11458", "U+11459" >>,
       \* tirhuta
       << "U+114D0", "U+114D1", "U+114D2", "U+114D3", "U+114D4",
          "U+114D5", "U+114D6", "U+114D7", "U+114D8", "U+114D9" >>,
       \* modi
       << "U+11650", "U+11651", "U+11652", "U+11653", "U+11654",
          "U+11655", "U+11656", "U+11657", "U+11658", "U+11659" >>,
       \* takri
       << "U+116C0", "U+116C1", "U+116C2", "U+116C3", "U+116C4",
          "U+116C5", "U+116C6", "U+116C7", "U+116C8", "U+116C9" >>,
       \* ahom
       << "U+11730", "U+11731", "U+11732", "U+11733", "U+11734",
          "U+11735", "U+11736", "U+11737", "U+11738", "U+11739" >>,
       \* warang citi
       << "U+118E0", "U+118E1", "U+118E2", "U+118E3", "U+118E4",
          "U+118E5", "U+118E6", "U+118E7", "U+118E8", "U+118E9" >>,
       \* dives akuru
       << "U+11950", "U+11951", "U+11952", "U+11953", "U+11954",
          "U+11955", "U+11956", "U+11957", "U+11958", "U+11959" >>,
       \* bhaiksuki
       << "U+11C50", "U+11C51", "U+11C52", "U+11C53", "U+11C54",
          "U+11C55", "U+11C56", "U+11C57", "U+11C58", "U+11C59" >>,
       \* masaram gondi
       << "U+11D50", "U+11D51", "U+11D52", "U+11D53", "U+11D54",
          "U+11D55", "U+11D56", "U+11D57", "U+11D58", "U+11D59" >>,
       \* gunjala gondi
       << "U+11DA0", "U+11DA1", "U+11DA2", "U+11DA3", "U+11DA4",
          "U+11DA5", "U+11DA6", "U+11DA7", "U+11DA8", "U+11DA9" >>,
       \* mro
       << "U+16A60", "U+16A61", "U+16A62", "U+16A63", "U+16A64",
          "U+16A65", "U+16A66", "U+16A67", "U+16A68", "U+16A69" >>,
       \* tangsa
       << "U+16AC0", "U+16AC1", "U+16AC2", "U+16AC3", "U+16AC4",
          "U+16AC5", "U+16AC6", "U+16AC7", "U+16AC8", "U+16AC9" >>,
       \* pahawh hmong
       << "U+16B50", "U+16B51", "U+16B52", "U+16B53", "U+16B54",
          "U+16B55", "U+16B56", "U+16B57", "U+16B58", "U+16B59" >>,
       \* mathematical bold
       << "U+1D7CE", "U+1D7CF", "U+1D7D0", "U+1D7D1", "U+1D7D2",
          "U+1D7D3", "U+1D7D4", "U+1D7D5", "U+1D7D6", "U+1D7D7" >>,
       \* mathematical double-struck
       << "U+1D7D8", "U+1D7D9", "U+1D7DA", "U+1D7DB", "U+1D7DC",
          "U+1D7DD", "U+1D7DE", "U+1D7DF", "U+1D7E0", "U+1D7E1" >>,
       \* mathematical sans-serif
       << "U+1D7E2", "U+1D7E3", "U+1D7E4", "U+1D7E5", "U+1D7E6",
          "U+1D7E7", "U+1D7E8", "U+1D7E9", "U+1D7EA", "U+1D7EB" >>,
       \* mathematical sans-serif bold
       << "U+1D7EC", "U+1D7ED", "U+1D7EE", "U+1D7EF", "U+1D7F0",
          "U+1D7F1", "U+1D7F2", "U+1D7F3", "U+1D7F4", "U+1D7F5" >>,
       \* mathematical monospace
       << "U+1D7F6", "U+1D7F7", "U+1D7F8", "U+1D7F9", "U+1D7FA",
          "U+1D7FB", "U+1D7FC", "U+1D7FD", "U+1D7FE", "U+1D7FF" >>,
       \* nyiakeng puachue hmong
       << "U+1E140", "U+1E141", "U+1E142", "U+1E143", "U+1E144",
          "U+1E145", "U+1E146", "U+1E147", "U+1E148", "U+1E149" >>,
       \* wancho
       << "U+1E2F0", "U+1E2F1", "U+1E2F2", "U+1E2F3", "U+1E2F4",
          "U+1E2F5", "U+1E2F6", "U+1E2F7", "U+1E2F8", "U+1E2F9" >>,
       \* adlam
       << "U+1E950", "U+1E951", "U+1E952", "U+1E953", "U+1E954",
          "U+1E955", "U+1E956", "U+1E957", "U+1E958", "U+1E959" >>,
       \* segmented
       << "U+1FBF0", "U+1FBF1", "U+1FBF2", "U+1FBF3", "U+1FBF4",
          "U+1FBF5", "U+1FBF6", "U+1FBF7", "U+1FBF8", "U+1FBF9" >> >>
DecimalChars ==
    UNION { { DigitRows[r][i] : i \in 1..Len(DigitRows[r]) } : r \in 1..Len(DigitRows) }

\* val.isdecimal()
IsDecimal(val) == Len(val) > 0 /\ \A i \in 1..Len(val) : val[i] \in DecimalChars

DigitValue(ch) ==
    LET row == CHOOSE r \in 1..Len(DigitRows) :
                   \E i \in 1..Len(DigitRows[r]) : DigitRows[r][i] = ch
    IN  (CHOOSE i \in 1..Len(DigitRows[row]) : DigitRows[row][i] = ch) - 1

\* int(val)
RECURSIVE ToInt(_)
ToInt(val) ==
    IF val = << >> THEN 0
    ELSE 10 * ToInt(SubSeq(val, 1, Len(val) - 1)) + DigitValue(val[Len(val)])

\* what extract_user does: it returns the sender of the replied-to message,
\* raises ValueError, or returns what app.get_users(arg) gives
ReturnsSender(user) == [ kind |-> "sender", user |-> user ]
RaisesValueError(text) == [ kind |-> "ValueError", text |-> text ]
LooksUp(arg) == [ kind |-> "get_users", arg |-> arg ]
IntArg(n) == [ kind |-> "int", n |-> n ]
StrArg(val) == [ kind |-> "str", s |-> val ]

\* m.entities[1] if m.text.startswith("/") and len(m.entities) > 1 else m.entities[0]
PickEntity(mm) ==
    IF StartsWith(mm.text, << "/" >>) /\ Len(mm.entities) > 1
    THEN mm.entities[2] ELSE mm.entities[1]

extract_user(mm) ==
    IF mm.reply_to_message # NoMessage
    THEN ReturnsSender(mm.reply_to_message.from_user)
    ELSE IF mm.entities = << >> \/ Len(mm.command) < 2
    THEN RaisesValueError("No user argument found.")
    ELSE LET msg_entities == PickEntity(mm)
         IN  IF msg_entities.type = "TEXT_MENTION"
             THEN LooksUp(IntArg(msg_entities.user.id))
             ELSE IF IsDecimal(mm.command[2])
             THEN LooksUp(IntArg(ToInt(mm.command[2])))
             ELSE IF is_valid_username(mm.command[2])
             THEN LooksUp(StrArg(mm.command[2]))
             ELSE RaisesValueError("Invalid user identifier")

(***************************************************************************)
(* Messages given to extract_user: a command with or without an argument,  *)
(* with the entities Telegram puts on it, alone or as a reply.             *)
(***************************************************************************)
Args ==
    {
      \* a user id
      << "1", "2", "3", "4", "5" >>,
      \* a user id with leading zeros
      << "0", "0", "7" >>,
      \* a username of 5 characters
      << "d", "u", "r", "o", "v" >>,
      \* 4 characters
      << "a", "b", "c", "d" >>,
      \* 32 characters
      << "a", "b", "c", "d", "e", "f", "g", "h", "i", "j", "b", "c",
         "d", "e", "f", "g", "h", "i", "j", "b", "c", "d", "e", "f",
         "g", "h", "i", "j", "_", "1", "2", "3" >>,
      \* 33 characters
      << "a", "b", "c", "d", "e", "f", "g", "h", "i", "j", "b", "c",
         "d", "e", "f", "g", "h", "i", "j", "b", "c", "d", "e", "f",
         "g", "h", "i", "j", "_", "1", "2", "3", "x" >>,
      \* a username written with @
      << "@", "d", "u", "r", "o", "v" >>,
      \* a leading digit
      << "1", "a", "b", "c", "d", "e" >>,
      \* a leading underscore
      << "_", "a", "b", "c", "d", "e" >>,
      \* letters, an underscore and a digit
      << "u", "s", "e", "r", "_", "1" >>,
      \* a negative id
      << "-", "1", "0", "0", "1", "2", "3" >>,
      \* a character that is not allowed
      << "d", "u", "r", ".", "v" >>,
      \* 123 in Arabic-Indic digits
      << "U+0661", "U+0662", "U+0663" >>,
      \* 12 in fullwidth digits
      << "U+FF11", "U+FF12" >>,
      \* 12 in Devanagari digits
      << "U+0967", "U+0968" >>,
      \* 112 in digits of three scripts
      << "1", "U+0967", "U+FF12" >>,
      \* superscript two, a digit that is not a decimal
      << "U+00B2" >>,
      \* a username with a fullwidth digit
      << "d", "u", "r", "o", "v", "U+FF11" >>
    }

CommandName == << "b", "a", "n" >>
Commands == { << CommandName >> } \cup { << CommandName, arg >> : arg \in Args }

BotCommand == [ type |-> "BOT_COMMAND", user |-> [ id |-> 0 ] ]
Mention == [ type |-> "MENTION", user |-> [ id |-> 0 ] ]
Bold == [ type |-> "BOLD", user |-> [ id |-> 0 ] ]
TextMention == [ type |-> "TEXT_MENTION", user |-> [ id |-> 42 ] ]

EntityLists ==
    { << >>, << BotCommand >>, << BotCommand, Mention >>, << BotCommand, TextMention >>,
      << TextMention >>, << BotCommand, Bold, TextMention >> }

\* the words of a command, separated by spaces
RECURSIVE JoinWords(_)
JoinWords(words) ==
    IF words = << >> THEN << >>
    ELSE IF Len(words) = 1 THEN Head(words)
    ELSE Head(words) \o << " " >> \o JoinWords(Tail(words))

CommandPrefixes == { "/", "!" }
Senders == { [ id |-> 7 ] }

CommandMessages ==
    { [ text |-> << prefix >> \o JoinWords(command), command |-> command,
        entities |-> entities, reply_to_message |-> reply ] :
        prefix \in CommandPrefixes, command \in Commands, entities \in EntityLists,
        reply \in { NoMessage } \cup { [ from_user |-> u ] : u \in Senders } }

\* no call of extract_user has ended yet
PendingUser == [ kind |-> "pending" ]

(***************************************************************************)
(* State.                                                                  *)
(***************************************************************************)
VARIABLES
    now,                     \* time.time(), in ticks
    last_request,            \* self.last_request
    request_delay,           \* self.request_delay
    current_instance_index,  \* self.current_instance_index
    co,                      \* the coroutines: position and locals of each
    calls,                   \* calls started so far
    nleaves,                 \* completed _rate_limit calls
    picked,                  \* the values _get_next_instance returned, in order
    outtmpls,                \* the output templates of the download calls made
                             \* in the current second (int(time.time())), in order
    disk,                    \* the files on disk
    tc,                      \* the gen_thumb / gen_qthumb coroutines
    served,                  \* the (function, video, user) whose cached path
                             \* a call has returned
    tcalls,                  \* thumbnail calls started so far
    message,                 \* the message url is called with
    url_result,              \* what url returned
    command_message,         \* the message extract_user is called with
    extracted                \* how extract_user ended

vars == << now, last_request, request_delay, current_instance_index, co, calls,
           nleaves, picked, outtmpls, disk, tc, served, tcalls,
           message, url_result, command_message, extracted >>

apiVars == << now, last_request, request_delay, current_instance_index, co, calls,
              nleaves, picked, outtmpls >>

thumbVars == << disk, tc, served, tcalls >>

inputVars == << message, url_result, command_message, extracted >>

\* no call of a function of a message is under way
NoInput ==
    /\ message = NoMessage
    /\ url_result = PendingUrl
    /\ command_message = NoMessage
    /\ extracted = PendingUser

Idle ==
    [ pc |-> "idle", op |-> "none", video_id |-> "none", audio_only |-> FALSE,
      wake |-> 0, inForce |-> 0, primary |-> "none", attempt |-> 0,
      tried |-> << >>, resp |-> NoResponse, yielded |-> 0,
      sleeps |-> << >>, reqAt |-> 0, gap |-> 0, sleepAt |-> 0, slept |-> FALSE,
      exists |-> FALSE, renameOk |-> FALSE, tmpl |-> [ stem |-> << >>, ext |-> "" ],
      opts |-> [ format |-> "", postprocessors |-> << >> ],
      backend |-> [ stem |-> << >>, ext |-> "" ], result |-> NoResult,
      viaExists |-> FALSE, existsValue |-> FALSE ]

Init ==
    /\ now = StartTime
    /\ last_request = 0
    /\ request_delay = InitialDelay
    /\ current_instance_index = 0
    /\ co = [ p \in Procs |-> Idle ]
    /\ calls = 0
    /\ nleaves = 0
    /\ picked = << >>
    /\ outtmpls = << >>
    /\ disk = Save(NoFiles, Assets)
    /\ tc = [ p \in ThumbProcs |-> TIdle ]
    /\ served = {}
    /\ tcalls = 0
    /\ NoInput

\* The cache directory is empty; each asset of the bot is there or missing.
InitThumb ==
    /\ now = StartTime
    /\ last_request = 0
    /\ request_delay = InitialDelay
    /\ current_instance_index = 0
    \* the composer does not use the YouTubeAPI object: no call of it runs
    /\ co = << >>
    /\ calls = 0
    /\ nleaves = 0
    /\ picked = << >>
    /\ outtmpls = << >>
    /\ \E missing \in { {}, { FAILED }, { CirclePath }, { FontPath1, FontPath2 } } :
           disk = Save(NoFiles, Assets \ missing)
    /\ tc = [ p \in ThumbProcs |-> TIdle ]
    /\ served = {}
    /\ tcalls = 0
    /\ NoInput

\* A coroutine that returns hands its result to its caller in the same step
\* of the event loop: nothing else runs, and no time passes, in between.
Quiet == \A p \in Procs : co[p].pc # "done"

(***************************************************************************)
(* _rate_limit.                                                            *)
(***************************************************************************)
\* self.last_request = time.time(); self.request_delay = random.uniform(1.5, 3.0)
LeaveRateLimit ==
    /\ nleaves' = nleaves + 1
    /\ last_request' = now
    /\ request_delay' \in DelayChoices

\* The code of an operation from the end of _rate_limit to its first await:
\* the backend request starts (asyncio.to_thread(ydl.extract_info, ...)).
StartPrimary(c) ==
    LET o == YdlOpts(c.op = "details" \/ (c.op = "download" /\ c.audio_only))
        t == IF c.op = "download" THEN OutTmpl(c.video_id, now) ELSE c.tmpl
    IN  [ c EXCEPT !.pc = "primary", !.opts = o, !.tmpl = t, !.reqAt = now,
                   !.wake = 0, !.sleepAt = 0 ]

LogTemplate(c) ==
    outtmpls' = IF c.op = "download"
                THEN Append(outtmpls, OutTmpl(c.video_id, now))
                ELSE outtmpls

\* details / video / download are entered and run up to their first await.
CallOf(p, ops) ==
    /\ Quiet
    /\ co[p].pc = "idle"
    /\ calls < MaxCalls
    /\ calls' = calls + 1
    /\ \E op \in ops, v \in VideoIds, a \in BOOLEAN, e \in BOOLEAN :
         LET c == [ Idle EXCEPT !.op = op, !.video_id = v,
                                !.audio_only = (op = "download" /\ a),
                                !.viaExists = e,
                                !.inForce = request_delay ]
             elapsed == now - last_request
         IN  /\ op # "download" => (a /\ v = "idA")
             \* exists(query) is a call of details(query)
             /\ op # "details" => ~e
             /\ IF MustWait(elapsed, request_delay)
                THEN /\ \E j \in JitterChoices :
                          co' = [ co EXCEPT ![p] =
                                    [ c EXCEPT !.pc = "rl_sleep", !.sleepAt = now,
                                               !.slept = TRUE,
                                               !.wake = now + SleepDelay(request_delay,
                                                                        elapsed, j) ] ]
                     /\ UNCHANGED << last_request, request_delay, nleaves, outtmpls >>
                ELSE /\ LeaveRateLimit
                     /\ co' = [ co EXCEPT ![p] = StartPrimary(c) ]
                     /\ LogTemplate(c)
    /\ UNCHANGED << now, current_instance_index, picked >>
    /\ UNCHANGED thumbVars
    /\ UNCHANGED inputVars

Call(p) == CallOf(p, { "details", "video", "download" })

CallStream(p) == CallOf(p, { "video", "download" })

\* asyncio.sleep(delay) in _rate_limit is over.
Wake(p) ==
    /\ Quiet
    /\ co[p].pc = "rl_sleep"
    /\ now >= co[p].wake
    /\ LeaveRateLimit
    /\ co' = [ co EXCEPT ![p] = StartPrimary(co[p]) ]
    /\ LogTemplate(co[p])
    /\ UNCHANGED << now, current_instance_index, calls, picked >>
    /\ UNCHANGED thumbVars
    /\ UNCHANGED inputVars

(***************************************************************************)
(* _get_next_instance and _get_from_invidious.                             *)
(***************************************************************************)
\* One attempt starts: base = self._get_next_instance(), then session.get.
StartAttempt(c, k) ==
    [ c EXCEPT !.pc = "mirror", !.attempt = k, !.wake = 0, !.sleepAt = 0,
               !.tried = Append(c.tried, InstanceAt(current_instance_index)),
               !.gap = now - c.reqAt,
               !.reqAt = now ]

GetNextInstance ==
    /\ picked' = Append(picked, InstanceAt(current_instance_index))
    /\ current_instance_index' = NextIndex(current_instance_index)

\* (mutant) exists answers True whatever details returned
ExistsAlways(r) == TRUE

\* exists: details, _ = await self.details(query); return details is not None
ExistsOf(r) == r.val # NoneResult

\* details returns the pair r; when exists made the call, exists returns at
\* once what it makes of it
DetailsReturns(c, r) ==
    [ c EXCEPT !.pc = "done", !.result = r,
               !.existsValue = c.viaExists /\ ExistsOf(r) ]

\* what details returns once _get_from_invidious has returned `fallback`
AfterFallback(c, fallback) ==
    DetailsReturns([ c EXCEPT !.wake = 0, !.sleepAt = 0 ],
                   IF fallback.kind # "None"
                   THEN [ val |-> fallback, err |-> "" ]
                   ELSE [ val |-> NoneResult, err |-> FallbackError(c.primary) ])

\* the end of one failed pass of the attempt loop
AfterFailure(c) ==
    IF SleepsAfter(c.attempt)
    THEN [ c EXCEPT !.pc = "backoff", !.wake = now + BackoffDelay(c.attempt),
                    !.sleepAt = now,
                    !.sleeps = Append(c.sleeps,
                                      [ kind |-> "backoff", attempt |-> c.attempt,
                                        dur |-> BackoffDelay(c.attempt) ]) ]
    ELSE AfterFallback(c, NoneResult)

\* The mirror answers, or the request fails.
MirrorResponse(p) ==
    /\ Quiet
    /\ co[p].pc = "mirror"
    /\ \E resp \in Responses :
         LET c == [ co[p] EXCEPT !.resp = resp,
                                 !.yielded = IF AttemptYields(resp)
                                             THEN co[p].yielded + 1
                                             ELSE co[p].yielded ]
         IN  co' = [ co EXCEPT ![p] =
                IF AttemptYields(resp) THEN AfterFallback(c, AttemptResult(resp))
                ELSE IF IsRateLimited(resp)
                THEN [ c EXCEPT !.pc = "cooldown", !.wake = now + Cooldown,
                                !.sleepAt = now,
                                !.sleeps = Append(c.sleeps,
                                                  [ kind |-> "cooldown",
                                                    attempt |-> c.attempt,
                                                    dur |-> Cooldown ]) ]
                ELSE AfterFailure(c) ]
    /\ UNCHANGED << now, last_request, request_delay, current_instance_index, calls,
                    nleaves, picked, outtmpls >>
    /\ UNCHANGED thumbVars
    /\ UNCHANGED inputVars

\* asyncio.sleep(1) after a 429 is over.
CooldownDone(p) ==
    /\ Quiet
    /\ co[p].pc = "cooldown"
    /\ now >= co[p].wake
    /\ co' = [ co EXCEPT ![p] = AfterFailure(co[p]) ]
    /\ UNCHANGED << now, last_request, request_delay, current_instance_index, calls,
                    nleaves, picked, outtmpls >>
    /\ UNCHANGED thumbVars
    /\ UNCHANGED inputVars

\* asyncio.sleep(0.5 * (attempt + 1)) is over: the next pass of the loop.
BackoffDone(p) ==
    /\ Quiet
    /\ co[p].pc = "backoff"
    /\ now >= co[p].wake
    /\ co' = [ co EXCEPT ![p] = StartAttempt(co[p], co[p].attempt + 1) ]
    /\ GetNextInstance
    /\ UNCHANGED << now, last_request, request_delay, calls, nleaves, outtmpls >>
    /\ UNCHANGED thumbVars
    /\ UNCHANGED inputVars

(***************************************************************************)
(* The primary backend returns or raises.                                  *)
(***************************************************************************)
DetailsPrimary(p) ==
    /\ Quiet
    /\ co[p].pc = "primary"
    /\ co[p].op = "details"
    /\ \E outcome \in DetailsOutcomes, v \in VideoIds :
         LET c == [ co[p] EXCEPT !.primary = outcome ]
         IN  IF FallsBack(outcome)
             THEN /\ co' = [ co EXCEPT ![p] = StartAttempt(c, 0) ]
                  /\ GetNextInstance
             ELSE /\ co' = [ co EXCEPT ![p] =
                       DetailsReturns(c, IF outcome = "ok"
                                         THEN [ val |-> PrimaryRecord(v), err |-> "" ]
                                         ELSE [ val |-> NoneResult,
                                                err |-> DetailsError(outcome) ]) ]
                  /\ UNCHANGED << current_instance_index, picked >>
    /\ UNCHANGED << now, last_request, request_delay, calls, nleaves, outtmpls >>
    /\ UNCHANGED thumbVars
    /\ UNCHANGED inputVars

VideoPrimary(p) ==
    /\ Quiet
    /\ co[p].pc = "primary"
    /\ co[p].op = "video"
    /\ \E outcome \in VideoOutcomes :
         co' = [ co EXCEPT ![p] = [ co[p] EXCEPT !.pc = "done", !.primary = outcome,
                                                 !.result = VideoResult(outcome) ] ]
    /\ UNCHANGED << now, last_request, request_delay, current_instance_index, calls,
                    nleaves, picked, outtmpls >>
    /\ UNCHANGED thumbVars
    /\ UNCHANGED inputVars

\* download after extract_info(download=True): prepare_filename, the rename
DownloadResult(c, outcome, ext, exists, renameOk) ==
    CASE outcome = "ok" ->
            [ val |-> [ kind |-> "path",
                        path |-> DownloadPath(PrepareFilename(c.tmpl, ext),
                                              c.audio_only, exists, renameOk) ],
              err |-> "" ]
      [] outcome = "download_error" -> [ val |-> NoneResult, err |-> "Download failed" ]
      [] OTHER -> [ val |-> NoneResult, err |-> "Error during download" ]

DownloadPrimary(p) ==
    /\ Quiet
    /\ co[p].pc = "primary"
    /\ co[p].op = "download"
    /\ \E outcome \in DownloadOutcomes, ext \in Exts, exists \in BOOLEAN,
          renameOk \in BOOLEAN :
         \* os.path.exists and os.rename are consulted only on the rename path
         /\ (outcome # "ok" \/ ~co[p].audio_only \/ ext = "mp3") => exists
         /\ (outcome # "ok" \/ ~co[p].audio_only \/ ext = "mp3" \/ ~exists) => renameOk
         /\ outcome # "ok" => ext = "webm"
         /\ co' = [ co EXCEPT ![p] =
               [ co[p] EXCEPT !.pc = "done", !.primary = outcome,
                              !.exists = exists, !.renameOk = renameOk,
                              !.backend = IF outcome = "ok"
                                          THEN PrepareFilename(co[p].tmpl, ext)
                                          ELSE co[p].backend,
                              !.result = DownloadResult(co[p], outcome, ext, exists,
                                                        renameOk) ] ]
    /\ UNCHANGED << now, last_request, request_delay, current_instance_index, calls,
                    nleaves, picked, outtmpls >>
    /\ UNCHANGED thumbVars
    /\ UNCHANGED inputVars

\* The caller takes the result; the coroutine is free for another call.
Return(p) ==
    /\ co[p].pc = "done"
    /\ co' = [ co EXCEPT ![p] = Idle ]
    /\ UNCHANGED << now, last_request, request_delay, current_instance_index, calls,
                    nleaves, picked, outtmpls >>
    /\ UNCHANGED thumbVars
    /\ UNCHANGED inputVars

\* Half a second passes.
Tick ==
    /\ Quiet
    /\ now < MaxTime
    /\ now' = now + 1
    /\ outtmpls' = IF Timestamp(now + 1) = Timestamp(now) THEN outtmpls ELSE << >>
    /\ UNCHANGED << last_request, request_delay, current_instance_index, co, calls,
                    nleaves, picked >>
    /\ UNCHANGED thumbVars
    /\ UNCHANGED inputVars

\* Calls that do not overlap: one caller, one call after the other.
NextSeq ==
    \/ Tick
    \/ \E p \in { "c1" } :
         \/ Call(p)
         \/ Wake(p)
         \/ DetailsPrimary(p)
         \/ VideoPrimary(p)
         \/ DownloadPrimary(p)
         \/ MirrorResponse(p)
         \/ CooldownDone(p)
         \/ BackoffDone(p)
         \/ Return(p)

SpecSeq == Init /\ [][NextSeq]_vars

\* Coroutines that call video and download concurrently.
NextStream ==
    \/ Tick
    \/ \E p \in Procs :
         \/ CallStream(p)
         \/ Wake(p)
         \/ VideoPrimary(p)
         \/ DownloadPrimary(p)
         \/ Return(p)

SpecStream == Init /\ [][NextStream]_vars

(***************************************************************************)
(* gen_thumb and gen_qthumb (the two differ in cached_path and the caption *)
(* they draw) and get_user_profile_pic.                                    *)
(***************************************************************************)
TQuiet == \A p \in ThumbProcs : tc[p].pc # "done"

\* a call returns `value`
TReturns(c, value) == [ c EXCEPT !.pc = "done", !.result = value ]

\* gen_thumb(videoid, user_id, app) up to its first await:
\*   if os.path.isfile(cached_path): return cached_path
ThumbCall(p) ==
    /\ TQuiet
    /\ tc[p].pc = "idle"
    /\ tcalls < MaxThumbCalls
    /\ tcalls' = tcalls + 1
    /\ \E fn \in ThumbFns, v \in ThumbVideoIds, u \in ThumbUserIds :
         LET c == [ TIdle EXCEPT !.fn = fn, !.videoid = v, !.user_id = u,
                                 !.again = (<< fn, v, u >> \in served) ]
         IN  tc' = [ tc EXCEPT ![p] =
               IF CacheHit(disk, fn, v, u)
               THEN [ TReturns(c, CachedPath(fn, v, u)) EXCEPT !.hit = TRUE ]
               ELSE [ c EXCEPT !.pc = "get_users",
                               !.fetched = c.fetched \cup { "profile" } ] ]
    /\ UNCHANGED << disk, served >>
    /\ UNCHANGED apiVars
    /\ UNCHANGED inputVars

\* after get_user_profile_pic: if not file_exists(user_image_path): return None;
\* then VideosSearch(url, limit=1) and await results.next()
AfterProfilePic(c, d, image) ==
    IF ~IsFile(d, image)
    THEN TReturns([ c EXCEPT !.user_image = image ], NonePath)
    ELSE [ c EXCEPT !.user_image = image, !.pc = "search",
                    !.fetched = c.fetched \cup { "metadata" } ]

\* app.get_users(user_id) returns or raises
GetUsers(p) ==
    /\ TQuiet
    /\ tc[p].pc = "get_users"
    /\ \E outcome \in { "photo", "no_photo", "raises" } :
         tc' = [ tc EXCEPT ![p] =
               IF outcome = "photo" THEN [ tc[p] EXCEPT !.pc = "download_media" ]
               ELSE AfterProfilePic(tc[p], disk, FAILED) ]
    /\ UNCHANGED << disk, served, tcalls >>
    /\ UNCHANGED apiVars
    /\ UNCHANGED inputVars

\* app.download_media(big_file_id, file_name=...) returns or raises
DownloadMedia(p) ==
    /\ TQuiet
    /\ tc[p].pc = "download_media"
    /\ \E outcome \in { "saved", "none", "raises" } :
         LET photo == PhotoPath(tc[p].user_id)
             d == IF outcome = "saved" THEN Save(disk, { photo }) ELSE disk
             c == [ tc[p] EXCEPT !.touched = (outcome = "saved") \/ tc[p].touched ]
         IN  /\ disk' = d
             /\ tc' = [ tc EXCEPT ![p] =
                   AfterProfilePic(c, d, IF outcome = "saved" /\ IsFile(d, photo)
                                         THEN photo ELSE FAILED) ]
    /\ UNCHANGED << served, tcalls >>
    /\ UNCHANGED apiVars
    /\ UNCHANGED inputVars

\* The code from the thumbnail download to the end runs without an await:
\* the avatar, the check of thumb_path, the composition file by file,
\* os.remove(thumb_path) and background.save(cached_path).  stop says where
\* it raises, if anywhere:
\*   avatar   the avatar block (Image.open(user_image_path) ...)
\*   image    between Image.open(thumb_path) and the first save
\*   X_refused, X_broken   the save of file X raises: the file could not be
\*            opened (nothing changes), or it was opened and not completed
\*   draw     between the save of cropped_path and os.remove(thumb_path)
ComposeStops ==
    { "none", "avatar", "image", "temp_refused", "temp_broken", "chop_refused",
      "chop_broken", "cropped_refused", "cropped_broken", "draw", "cached_refused",
      "cached_broken" }

\* the function returns FAILED or None and leaves the disk d; wrote: a file
\* was written; removed: thumb_path was removed
ComposeFails(d, wrote, removed) ==
    [ disk |-> d, value |-> FailedOrNone(d), wrote |-> wrote, removed |-> removed ]

\* removable: os.remove(thumb_path) removes the file; when it raises instead
\* (lines 224-225: except Exception: pass) the file stays and the function
\* goes on to save cached_path
Compose(c, d, stop, removable) ==
    LET thumb_path == ThumbPath(c.videoid)
        temp_path == TempPath(c.videoid)
        chop_path == ChopPath(c.videoid)
        cropped_path == CroppedPath(c.videoid)
        cached == CachedPath(c.fn, c.videoid, c.user_id)
        d1 == Save(d, { temp_path })
        d2 == Save(d1, { chop_path })
        d3 == IF IsFile(d2, cropped_path) THEN d2 ELSE Save(d2, { cropped_path })
        d4 == IF removable THEN Remove(d3, thumb_path) ELSE d3
    IN  IF stop = "avatar" \/ ~IsFile(d, thumb_path)
        THEN ComposeFails(d, FALSE, FALSE)
        ELSE IF ~IsWhole(d, thumb_path) \/ ~IsFile(d, CirclePath) \/ stop = "image"
        THEN ComposeFails(d, FALSE, FALSE)
        ELSE IF stop = "temp_refused" THEN ComposeFails(d, FALSE, FALSE)
        ELSE IF stop = "temp_broken" THEN ComposeFails(Truncate(d, temp_path), TRUE, FALSE)
        ELSE IF stop = "chop_refused" THEN ComposeFails(d1, TRUE, FALSE)
        ELSE IF stop = "chop_broken" THEN ComposeFails(Truncate(d1, chop_path), TRUE, FALSE)
        ELSE IF stop = "cropped_refused" /\ ~IsFile(d2, cropped_path)
        THEN ComposeFails(d2, TRUE, FALSE)
        ELSE IF stop = "cropped_broken" /\ ~IsFile(d2, cropped_path)
        THEN ComposeFails(Truncate(d2, cropped_path), TRUE, FALSE)
        ELSE IF ~IsWhole(d3, cropped_path) THEN ComposeFails(d3, TRUE, FALSE)
        ELSE IF ~IsFile(d, FontPath1) \/ ~IsFile(d, FontPath2) \/ stop = "draw"
        THEN ComposeFails(d3, TRUE, FALSE)
        ELSE IF stop = "cached_refused" THEN ComposeFails(d4, TRUE, removable)
        ELSE IF stop = "cached_broken"
        THEN ComposeFails(Truncate(d4, cached), TRUE, removable)
        ELSE [ disk |-> Save(d4, { cached }), value |-> cached, wrote |-> TRUE,
               removed |-> removable ]

\* the call p composes; a call that holds thumb_path open for writing when
\* the file is removed goes on writing to the removed file
Composed(p, c, d) ==
    \E r \in { Compose(c, d, stop, removable) :
                 stop \in ComposeStops, removable \in BOOLEAN } :
            /\ disk' = r.disk
            /\ tc' = [ q \in ThumbProcs |->
                  IF q = p
                  THEN TReturns([ c EXCEPT !.touched = c.touched \/ r.wrote ], r.value)
                  ELSE IF /\ r.removed
                          /\ tc[q].pc = "write"
                          /\ ThumbPath(tc[q].videoid) = ThumbPath(c.videoid)
                  THEN [ tc[q] EXCEPT !.stale = TRUE ]
                  ELSE tc[q] ]

\* results.next() returns the video found, or nothing, or raises
Search(p) ==
    /\ TQuiet
    /\ tc[p].pc = "search"
    /\ \E found \in BOOLEAN :
         IF found
         THEN /\ tc' = [ tc EXCEPT ![p] =
                    [ tc[p] EXCEPT !.pc = "http_get", !.thumbnail = TRUE,
                                   !.fetched = tc[p].fetched \cup { "thumbnail" } ] ]
              /\ UNCHANGED disk
         ELSE Composed(p, tc[p], disk)
    /\ UNCHANGED << served, tcalls >>
    /\ UNCHANGED apiVars
    /\ UNCHANGED inputVars

\* session.get(thumbnail) answers; on 200 aiofiles.open(thumb_path, "wb")
HttpGet(p) ==
    /\ TQuiet
    /\ tc[p].pc = "http_get"
    /\ \E status \in { 200, 404, 0 } :
         IF status = 200
         THEN /\ tc' = [ tc EXCEPT ![p] = [ tc[p] EXCEPT !.pc = "open" ] ]
              /\ UNCHANGED disk
         ELSE Composed(p, tc[p], disk)
    /\ UNCHANGED << served, tcalls >>
    /\ UNCHANGED apiVars
    /\ UNCHANGED inputVars

\* aiofiles.open(thumb_path, mode="wb"): the file is created or truncated;
\* or the open raises, nothing changes and the function goes on to compose
OpenThumb(p) ==
    /\ TQuiet
    /\ tc[p].pc = "open"
    /\ \E opened \in BOOLEAN :
         IF opened
         THEN /\ disk' = Truncate(disk, ThumbPath(tc[p].videoid))
              /\ tc' = [ tc EXCEPT ![p] = [ tc[p] EXCEPT !.pc = "write",
                                                          !.touched = TRUE ] ]
         ELSE Composed(p, tc[p], disk)
    /\ UNCHANGED << served, tcalls >>
    /\ UNCHANGED apiVars
    /\ UNCHANGED inputVars

\* f.write(await resp.read()) and the close of the file.  The data go to the
\* file that was opened: when it was removed meanwhile they are lost, and the
\* file that may be at the path now stays as it is
WriteThumb(p) ==
    /\ TQuiet
    /\ tc[p].pc = "write"
    /\ \E ok \in BOOLEAN :
         /\ disk' = IF ok /\ ~tc[p].stale
                    THEN Save(disk, { ThumbPath(tc[p].videoid) })
                    ELSE disk
         /\ tc' = [ tc EXCEPT ![p] = [ tc[p] EXCEPT !.pc = "compose",
                                                     !.written = ok,
                                                     !.stale = FALSE ] ]
    /\ UNCHANGED << served, tcalls >>
    /\ UNCHANGED apiVars
    /\ UNCHANGED inputVars

\* the rest of the function after the download
ComposeStep(p) ==
    /\ TQuiet
    /\ tc[p].pc = "compose"
    /\ Composed(p, tc[p], disk)
    /\ UNCHANGED << served, tcalls >>
    /\ UNCHANGED apiVars
    /\ UNCHANGED inputVars

\* The caller takes the result.
ThumbReturn(p) ==
    /\ tc[p].pc = "done"
    /\ served' = IF tc[p].result = CachedPath(tc[p].fn, tc[p].videoid, tc[p].user_id)
                 THEN served \cup { << tc[p].fn, tc[p].videoid, tc[p].user_id >> }
                 ELSE served
    /\ tc' = [ tc EXCEPT ![p] = TIdle ]
    /\ UNCHANGED << disk, tcalls >>
    /\ UNCHANGED apiVars
    /\ UNCHANGED inputVars

\* Coroutines that call gen_thumb and gen_qthumb concurrently.
NextThumb ==
    \E p \in ThumbProcs :
        \/ ThumbCall(p)
        \/ GetUsers(p)
        \/ DownloadMedia(p)
        \/ Search(p)
        \/ HttpGet(p)
        \/ OpenThumb(p)
        \/ WriteThumb(p)
        \/ ComposeStep(p)
        \/ ThumbReturn(p)

SpecThumb == InitThumb /\ [][NextThumb]_vars

(***************************************************************************)
(* YouTubeAPI.url applied to the messages.                                 *)
(***************************************************************************)
InitUrl ==
    /\ now = StartTime
    /\ last_request = 0
    /\ request_delay = InitialDelay
    /\ current_instance_index = 0
    /\ co = [ p \in Procs |-> Idle ]
    /\ calls = 0
    /\ nleaves = 0
    /\ picked = << >>
    /\ outtmpls = << >>
    /\ disk = Save(NoFiles, Assets)
    /\ tc = [ p \in ThumbProcs |-> TIdle ]
    /\ served = {}
    /\ tcalls = 0
    /\ message \in Messages
    /\ url_result = PendingUrl
    /\ command_message = NoMessage
    /\ extracted = PendingUser

\* await youtube.url(message)
UrlCall ==
    /\ url_result = PendingUrl
    /\ url_result' = url(message)
    /\ UNCHANGED << message, command_message, extracted >>
    /\ UNCHANGED << apiVars, thumbVars >>

\* the next message arrives
UrlNext ==
    /\ url_result # PendingUrl
    /\ message' \in Messages
    /\ url_result' = PendingUrl
    /\ UNCHANGED << command_message, extracted >>
    /\ UNCHANGED << apiVars, thumbVars >>

NextUrl == UrlCall \/ UrlNext

SpecUrl == InitUrl /\ [][NextUrl]_vars

(***************************************************************************)
(* extract_user applied to the command messages.                           *)
(***************************************************************************)
InitExtract ==
    /\ now = StartTime
    /\ last_request = 0
    /\ request_delay = InitialDelay
    /\ current_instance_index = 0
    /\ co = [ p \in Procs |-> Idle ]
    /\ calls = 0
    /\ nleaves = 0
    /\ picked = << >>
    /\ outtmpls = << >>
    /\ disk = Save(NoFiles, Assets)
    /\ tc = [ p \in ThumbProcs |-> TIdle ]
    /\ served = {}
    /\ tcalls = 0
    /\ message = NoMessage
    /\ url_result = PendingUrl
    /\ command_message \in CommandMessages
    /\ extracted = PendingUser

\* await extract_user(m)
ExtractCall ==
    /\ extracted = PendingUser
    /\ extracted' = extract_user(command_message)
    /\ UNCHANGED << message, url_result, command_message >>
    /\ UNCHANGED << apiVars, thumbVars >>

\* the next command arrives
ExtractNext ==
    /\ extracted # PendingUser
    /\ command_message' \in CommandMessages
    /\ extracted' = PendingUser
    /\ UNCHANGED << message, url_result >>
    /\ UNCHANGED << apiVars, thumbVars >>

NextExtract == ExtractCall \/ ExtractNext

SpecExtract == InitExtract /\ [][NextExtract]_vars

(***************************************************************************)
(* Properties.                                                             *)
(***************************************************************************)
\* Coroutine p completes a _rate_limit call in this step, and it is not the
\* first call ever to do so.
Leaves(p) == co[p].pc # "primary" /\ co'[p].pc = "primary" /\ nleaves >= 1

\* C1 (as amended): with calls that do not overlap, every _rate_limit call
\* after the first completes at least request_delay after the one before it,
\* where request_delay is the value in force for the later call, and that
\* value was drawn from [1.5 s, 3.0 s]; so two consecutive requests are never
\* closer than 1.5 s.
C1_ConsecutiveCallsApart ==
    [][ \A p \in Procs : Leaves(p) =>
            /\ last_request' - last_request >= co'[p].inForce
            /\ co'[p].inForce >= 3 /\ co'[p].inForce <= 6
            /\ last_request' = now ]_vars

\* C1, witness: a second call found the previous request too recent, slept
\* and has completed _rate_limit.
C1_Witness ==
    /\ nleaves >= 2
    /\ co["c1"].pc = "primary"
    /\ co["c1"].slept

\* C1 (as claimed): the delay in force for the second call ever made is the
\* initial 2.0 s, for later calls the value drawn from [1.5 s, 3.0 s].
C1_SecondCallWaitsInitialDelay ==
    [][ \A p \in Procs : Leaves(p) =>
            last_request' - last_request >=
                (IF nleaves = 1 THEN 4 ELSE co'[p].inForce) ]_vars

\* C2 (as claimed): with coroutines calling concurrently, no two of them leave
\* _rate_limit less than the minimum delay (1.5 s) apart.
C2_ConcurrentCallsApart ==
    [][ \A p \in Procs : Leaves(p) => last_request' - last_request >= 3 ]_vars

\* The place of mirror m in the fixed list.
MirrorPosition(m) == CHOOSE i \in 1..5 : invidious_instances[i] = m

\* C3: the k-th call to _get_next_instance (from 0) returns mirror k mod 5 of
\* the fixed list of 5, any 5 consecutive calls return 5 different mirrors,
\* and current_instance_index stays in 0..4.
C3_RoundRobin ==
    /\ Len(invidious_instances) = 5
    /\ current_instance_index \in 0..4
    /\ current_instance_index = Len(picked) % 5
    /\ \A k \in 1..Len(picked) : picked[k] = invidious_instances[((k - 1) % 5) + 1]
    /\ \A k \in 1..Len(picked), j \in 1..Len(picked) :
           (k < j /\ j - k < 5) => picked[k] # picked[j]

\* C3, witness: six calls were made, so the rotation has wrapped around.
C3_Witness == Len(picked) >= 6 /\ picked[6] = picked[1]

\* C4 (as claimed): whenever the primary backend fails during details (any
\* error, no info, no entries, an entry without id), the mirrors are
\* consulted, and a video a mirror yields is returned with an empty error.
C4_FallbackOnEveryFailure ==
    \A p \in Procs :
        (co[p].pc = "done" /\ co[p].op = "details" /\ co[p].primary # "ok") =>
            /\ Len(co[p].tried) >= 1
            /\ AttemptYields(co[p].resp) =>
                   (co[p].result.err = "" /\ co[p].result.val.kind = "dict")

\* C5: a fallback lookup makes at most min(3, 5) = 3 attempts, on consecutive
\* mirrors of the rotation (so all different); it returns the first entry of
\* type video of the first response that is HTTP 200 with a non-empty list
\* holding such an entry, and None once all 3 attempts have failed; no
\* outcome of an attempt makes it raise.
C5_BoundedLookup ==
    \A p \in Procs :
        LET c == co[p]
            n == Len(c.tried)
        IN  /\ n <= 3
            /\ \A i \in 1..n, j \in 1..n : i < j => c.tried[i] # c.tried[j]
            /\ \A i \in 1..(n - 1) :
                   MirrorPosition(c.tried[i + 1]) = (MirrorPosition(c.tried[i]) % 5) + 1
            /\ c.pc \in { "mirror", "cooldown", "backoff" } =>
                   (n = c.attempt + 1 /\ c.yielded = 0)
            /\ (c.pc = "done" /\ n >= 1) =>
                   LET r == c.resp
                       good == /\ r.outcome = "http" /\ r.status = 200
                               /\ r.body.kind = "list"
                               /\ \E i \in 1..Len(r.body.items) :
                                      r.body.items[i].type = "video"
                   IN  IF good
                       THEN /\ c.yielded = 1
                            /\ c.result.err = ""
                            /\ c.result.val.kind = "dict"
                            /\ \E i \in 1..Len(r.body.items) :
                                 /\ r.body.items[i].type = "video"
                                 /\ \A j \in 1..(i - 1) : r.body.items[j].type # "video"
                                 /\ c.result.val.id = r.body.items[i].videoId
                       ELSE /\ c.yielded = 0
                            /\ n = 3
                            /\ c.result.val = NoneResult
                            /\ c.result.err \in
                                 { "No video ID found and fallback failed",
                                   "Blocked by YouTube and fallback failed" }

\* C5, witness: the first two mirrors failed and the third one answered with
\* a list whose second entry is its first video.
C5_Witness ==
    /\ co["c1"].pc = "done"
    /\ Len(co["c1"].tried) = 3
    /\ co["c1"].result.err = ""
    /\ co["c1"].result.val.id = "idB"

\* C6 (as claimed): the sleep between failed attempts grows linearly and
\* includes a random jitter (some run sleeps longer than the base time); no
\* sleep follows the last attempt.
C6_JitteredBackoff ==
    \A p \in Procs :
        LET c == co[p]
        IN  /\ c.pc = "backoff" => c.wake - c.sleepAt >= c.attempt + 1
            /\ (c.pc = "mirror" /\ c.attempt < 2) =>
                   ENABLED (MirrorResponse(p) /\ co'[p].pc = "backoff"
                            /\ co'[p].wake > now + c.attempt + 1)
            /\ c.pc \in { "backoff", "cooldown" } => c.attempt < 2

\* C7 (as claimed): every mirror request starts at least the minimum delay
\* (1.5 s) after the outbound request before it (the primary request of the
\* same details call, or the previous mirror attempt).
C7_MirrorRequestsApart ==
    \A p \in Procs : Len(co[p].tried) >= 1 => co[p].gap >= 3

\* C8: once gen_thumb or gen_qthumb has returned its cached path for a
\* (video id, user id) pair, the cached file stays and every later call for
\* the pair returns that path at once: no profile picture, metadata or
\* thumbnail is fetched and no file is created, modified or deleted; and a
\* call that finds its cached file changes nothing on disk.
C8_CachedPerPair ==
    /\ \A t \in served : IsFile(disk, CachedPath(t[1], t[2], t[3]))
    /\ \A p \in ThumbProcs :
           LET c == tc[p]
           IN  (c.again \/ c.hit) =>
                   /\ c.pc = "done"
                   /\ c.hit
                   /\ c.result = CachedPath(c.fn, c.videoid, c.user_id)
                   /\ c.fetched = {}
                   /\ ~c.touched

\* C8, witness: a second call for a pair whose cached path was returned
\* before has returned the same path.
C8_Witness ==
    \E p \in ThumbProcs :
        /\ tc[p].pc = "done"
        /\ tc[p].again
        /\ tc[p].fn = "gen_qthumb"
        /\ tc[p].result = CachedPath("gen_qthumb", tc[p].videoid, tc[p].user_id)

\* The post-processors that re-encode the audio as mp3.
C9_Mp3 == << [ key |-> "FFmpegExtractAudio", preferredcodec |-> "mp3" ] >>

\* C9 (as amended): with audio_only=True the options request the mp3
\* re-encode and a successful download returns a path ending in .mp3, unless
\* the file the backend reports still exists under another extension and
\* renaming it fails, in which case the backend's path is returned; with
\* audio_only=False no re-encode is requested and the backend's path is
\* returned unchanged.
C9_ModeSelection ==
    \A p \in Procs :
        LET c == co[p]
        IN  /\ (c.op = "download" /\ c.pc \in { "primary", "done" }) =>
                   c.opts.postprocessors = (IF c.audio_only THEN C9_Mp3 ELSE << >>)
            /\ (c.op = "download" /\ c.pc = "done" /\ c.result.err = "") =>
                   /\ c.result.val.kind = "path"
                   /\ c.backend.stem = c.tmpl.stem
                   /\ c.result.val.path.stem = c.backend.stem
                   /\ IF ~c.audio_only
                      THEN c.result.val.path = c.backend
                      ELSE IF c.backend.ext # "mp3" /\ c.exists /\ ~c.renameOk
                      THEN c.result.val.path = c.backend
                      ELSE c.result.val.path.ext = "mp3"

\* C9, witness: an audio download whose media came as webm returns the .mp3
\* path.
C9_Witness ==
    /\ co["c1"].pc = "done"
    /\ co["c1"].op = "download"
    /\ co["c1"].audio_only
    /\ co["c1"].backend.ext = "webm"
    /\ co["c1"].result.val.kind = "path"
    /\ co["c1"].result.val.path.ext = "mp3"

\* C9 (as claimed): with audio_only=True every successful download returns a
\* path ending in .mp3.
C9_AudioAlwaysMp3 ==
    \A p \in Procs :
        (co[p].op = "download" /\ co[p].pc = "done" /\ co[p].audio_only
            /\ co[p].result.err = "") => co[p].result.val.path.ext = "mp3"

\* C10 (as claimed): no two calls to download use the same output template,
\* also when they run concurrently or within the same second.
C10_UniqueOutput ==
    \A i \in 1..Len(outtmpls), j \in 1..Len(outtmpls) :
        i < j => outtmpls[i] # outtmpls[j]

\* The characters outside the Basic Multilingual Plane: each takes two
\* UTF-16 code units, every other character one.
AstralChars == { "U+1F3B5" }

RECURSIVE Utf16Length(_)
Utf16Length(text) ==
    IF text = << >> THEN 0
    ELSE (IF Head(text) \in AstralChars THEN 2 ELSE 1) + Utf16Length(Tail(text))

\* The part of a text an entity covers, its offset and length being counted
\* in UTF-16 code units as Telegram delivers them.
EntityText(text, offset, length) ==
    LET covered == { i \in 1..Len(text) :
                       /\ Utf16Length(SubSeq(text, 1, i - 1)) >= offset
                       /\ Utf16Length(SubSeq(text, 1, i)) <= offset + length }
    IN  [ k \in 1..Cardinality(covered) |->
            text[(CHOOSE i \in covered : \A j \in covered : i <= j) + k - 1] ]

\* The entities of a message that are a URL or a text link whose string
\* fully matches the YouTube URL pattern, by position (entities, then
\* caption entities).
MatchingEntities(msg) ==
    LET all == msg.entities \o msg.caption_entities
        text == TextOf(msg)
    IN  { i \in 1..Len(all) :
            \/ all[i].type = "URL"
               /\ url_regex_fullmatch(EntityText(text, all[i].offset, all[i].length))
            \/ all[i].type = "TEXT_LINK" /\ url_regex_fullmatch(all[i].url) }

\* The string of the first matching entity of a message that has one.
FirstMatching(msg) ==
    LET all == msg.entities \o msg.caption_entities
        i == CHOOSE k \in MatchingEntities(msg) : \A j \in MatchingEntities(msg) : k <= j
    IN  IF all[i].type = "URL" THEN EntityText(TextOf(msg), all[i].offset, all[i].length)
        ELSE all[i].url

\* C11 (as claimed): url(message) never raises; it returns None or a string
\* that fully matches the YouTube URL pattern; the string is that of the
\* first matching
\* URL or text-link entity of the message itself, that of the replied-to
\* message only when the message itself has none, and None exactly when
\* neither message has one.
C11_UrlFirstMatch ==
    url_result # PendingUrl =>
        LET reply == message.reply_to_message
            inReply == reply # NoMessage /\ MatchingEntities(reply) # {}
        IN  /\ ~url_result.raised
            /\ url_result.value = NoneStr \/ url_regex_fullmatch(url_result.value)
            /\ MatchingEntities(message) # {} =>
                   url_result.value = FirstMatching(message)
            /\ (MatchingEntities(message) = {} /\ inReply) =>
                   url_result.value = FirstMatching(reply)
            /\ url_result.value = NoneStr <=>
                   (MatchingEntities(message) = {} /\ ~inReply)

\* C12: every record details returns as a success, from the primary backend
\* or from a mirror, has a non-empty id and the url
\* 'https://www.youtube.com/watch?v=' followed by that id.
C12_RecordHasUsableId ==
    \A p \in Procs :
        (co[p].op = "details" /\ co[p].pc = "done" /\ co[p].result.err = "") =>
            /\ co[p].result.val.kind = "dict"
            /\ co[p].result.val.id \in VideoIds
            /\ co[p].result.val.url = << base_url, co[p].result.val.id >>

\* C13: get_user_profile_pic returns the downloaded photo path only when that
\* file exists, otherwise the default image path; gen_thumb and gen_qthumb
\* end every call by returning (no step of theirs ends otherwise) one of: the
\* cached composite path, and then that file is on disk, saved in full by
\* the call itself (line 226) or, on a cache hit, as an earlier save left it;
\* the default image path, and then that file exists; None, and then the
\* default image is missing.
C13_DegradesToDefault ==
    \A p \in ThumbProcs :
        LET c == tc[p]
            cached == CachedPath(c.fn, c.videoid, c.user_id)
        IN  /\ c.pc \in { "search", "http_get", "open", "write", "compose" } =>
                   /\ c.user_image \in { PhotoPath(c.user_id), FAILED }
                   /\ IsFile(disk, c.user_image)
            /\ c.pc = "done" =>
                   /\ c.result \in { cached, FAILED, NonePath }
                   /\ c.result = cached =>
                          /\ IsFile(disk, cached)
                          /\ ~c.hit => IsWhole(disk, cached)
                   /\ c.result = FAILED => IsFile(disk, FAILED)
                   /\ c.result = NonePath => ~IsFile(disk, FAILED)

\* C13, witness: a call that got the profile photo and downloaded the
\* thumbnail could not compose the image and returned the default image.
C13_Witness ==
    \E p \in ThumbProcs :
        /\ tc[p].pc = "done"
        /\ tc[p].result = FAILED
        /\ tc[p].user_image = PhotoPath(tc[p].user_id)
        /\ "thumbnail" \in tc[p].fetched
        /\ IsWhole(disk, ThumbPath(tc[p].videoid))

\* C14: details, video and download end every call by returning a pair
\* (result, error) (every outcome of the backend, exceptions included, leads
\* to a return) in which result is None exactly when error is a non-empty
\* string and result is not None exactly when error is the empty string;
\* exists(query) returns True exactly when its call of details returned a
\* result that is not None.
C14_ResultXorError ==
    \A p \in Procs :
        co[p].pc = "done" =>
            /\ co[p].op \in { "details", "video", "download" }
            /\ co[p].result.val.kind \in { "None", "dict", "str", "path" }
            /\ co[p].result.err # "pending"
            /\ co[p].result.val.kind = "None" <=> co[p].result.err # ""
            /\ co[p].result.val.kind # "None" <=> co[p].result.err = ""
            /\ co[p].viaExists =>
                   (co[p].existsValue <=> co[p].result.val.kind # "None")

\* C14, witness: exists called details, the primary backend was blocked, the
\* three mirror attempts failed, details returned None with an error and
\* exists returned False.
C14_Witness ==
    \E p \in Procs :
        /\ co[p].pc = "done"
        /\ co[p].viaExists
        /\ co[p].primary = "captcha"
        /\ Len(co[p].tried) = AttemptCap
        /\ co[p].result.val.kind = "None"
        /\ co[p].result.err = "Blocked by YouTube and fallback failed"
        /\ ~co[p].existsValue

\* C15: a reply gives the sender of the replied-to message and no lookup;
\* otherwise a message without entities or with fewer than two command parts
\* gives ValueError and no lookup, and so does an argument that is neither a
\* decimal number (a non-empty string of decimal digits, of whatever script)
\* nor a username of 5 to 32 letters, digits and underscores starting with a
\* letter; app.get_users is called only with an integer id or with such a
\* username.
C15_OnlyValidUser ==
    extracted # PendingUser =>
        LET mm == command_message
            isReply == mm.reply_to_message # NoMessage
            arg == mm.command[2]
            decimal ==
                /\ Len(arg) >= 1
                /\ \A i \in 1..Len(arg) :
                       \E r \in 1..Len(DigitRows) : \E k \in 1..10 : DigitRows[r][k] = arg[i]
            Username(x) ==
                /\ Len(x) \in 5..32
                /\ x[1] \in Letters
                /\ \A i \in 1..Len(x) : x[i] \in Letters \cup DigitChars \cup { "_" }
            mentioned == \E i \in 1..Len(mm.entities) : mm.entities[i].type = "TEXT_MENTION"
        IN  /\ isReply =>
                   extracted = [ kind |-> "sender", user |-> mm.reply_to_message.from_user ]
            /\ (~isReply /\ (mm.entities = << >> \/ Len(mm.command) < 2)) =>
                   extracted.kind = "ValueError"
            /\ (~isReply /\ mm.entities # << >> /\ Len(mm.command) >= 2 /\ ~mentioned
                    /\ ~decimal /\ ~Username(arg)) =>
                   extracted.kind = "ValueError"
            /\ extracted.kind = "get_users" =>
                   /\ ~isReply
                   /\ \/ extracted.arg.kind = "int" /\ extracted.arg.n \in Nat
                      \/ extracted.arg.kind = "str" /\ Username(extracted.arg.s)
                   /\ (~mentioned /\ decimal) => extracted.arg.kind = "int"
                   /\ (~mentioned /\ ~decimal) => extracted.arg = [ kind |-> "str", s |-> arg ]

\* C15, witness: a command whose argument is a username of 32 characters was
\* looked up by that username.
C15_Witness ==
    /\ extracted # PendingUser
    /\ extracted.kind = "get_users"
    /\ extracted.arg.kind = "str"
    /\ Len(extracted.arg.s) = 32
    /\ command_message.reply_to_message = NoMessage

\* C16: when two concurrent calls for the same video id have both downloaded
\* the thumbnail (the write of each raised nothing), the one that is about to
\* compose finds the shared file cache/thumb<id>.png whole, whatever the
\* other has done meanwhile (composed and returned its result, or not yet).
C16_NoInterference ==
    \A p \in ThumbProcs : \A q \in ThumbProcs \ { p } :
        ( /\ tc[p].pc \in { "compose", "done" } /\ tc[p].written
          /\ tc[q].pc = "compose" /\ tc[q].written
          /\ tc[p].videoid = tc[q].videoid ) =>
            IsWhole(disk, ThumbPath(tc[q].videoid))

====
